---- MODULE Spec2Model ----
(***************************************************************************)
(* A model of meshio/_helpers.py: the extension table, format inference    *)
(* (_filetype_from_path) and the dispatchers read, write and               *)
(* write_points_cells with the reader and writer tables.                   *)
(*                                                                         *)
(* Strings are Python strings.  A path is the string of its file name.     *)
(* A backend (meshio.vtk, meshio.gmsh, ...) is named by its module name;   *)
(* it is external, so an invocation is recorded and its result is chosen   *)
(* by the environment.                                                     *)
(***************************************************************************)
EXTENDS Integers, Sequences, FiniteSets, TLC

VARIABLES
    files,     \* the file system: path |-> the backend whose writer produced it
    call,      \* the last call: its function and arguments
    outcome,   \* how the last call ended: a return value or a raised error
    steps,     \* the stages the last call went through, in order
    invoked    \* the backend invocations the last call made, in order

vars == <<files, call, outcome, steps, invoked>>

\* Python's None (no string a caller passes equals it).
None == "<None>"

\* the arguments of str.format: a string, or a list of strings
Str(s) == [str |-> s]
List(l) == [list |-> l]

----------------------------------------------------------------------------
(* Python string helpers *)

Char(s, i) == SubSeq(s, i, i)

\* s[i:] with a 0-based i, as Python writes it
From(s, i) == SubSeq(s, i + 1, Len(s))

\* s[:i] with a 0-based i
Upto(s, i) == SubSeq(s, 1, IF i < Len(s) THEN i ELSE Len(s))

endswith(s, c) == Len(s) > 0 /\ Char(s, Len(s)) = c

RECURSIVE lstrip(_, _)
lstrip(s, c) ==
    IF Len(s) > 0 /\ Char(s, 1) = c THEN lstrip(From(s, 1), c) ELSE s

\* the index of the first c in s (1-based), 0 when there is none
find(s, c) ==
    IF \E i \in 1..Len(s) : Char(s, i) = c
    THEN CHOOSE i \in 1..Len(s) :
            /\ Char(s, i) = c
            /\ \A j \in 1..(i - 1) : Char(s, j) # c
    ELSE 0

RECURSIVE split(_, _)
\* s.split(c) once the first c is known to be at i
split_at(s, c, i) ==
    IF i = 0 THEN <<s>>
    ELSE <<SubSeq(s, 1, i - 1)>> \o split(From(s, i), c)

split(s, c) == split_at(s, c, find(s, c))

RECURSIVE concat(_)
concat(ss) == IF ss = <<>> THEN "" ELSE Head(ss) \o concat(Tail(ss))

reversed(ss) == [i \in 1..Len(ss) |-> ss[Len(ss) + 1 - i]]

\* ['.' + suffix for suffix in parts]
dotted(parts) == [i \in 1..Len(parts) |-> "." \o parts[i]]

\* pathlib.PurePath.suffixes of a file name
suffixes(name) ==
    IF endswith(name, ".") THEN <<>>
    ELSE dotted(Tail(split(lstrip(name, "."), ".")))

----------------------------------------------------------------------------
(* The extension table *)

\* _extension_to_filetype, as its (key, value) pairs in source order
extension_items ==
    << <<".bdf", "nastran">>, <<".cgns", "cgns">>, <<".e", "exodus">>,
       <<".ex2", "exodus">>, <<".exo", "exodus">>, <<".f3grid", "flac3d">>,
       <<".fem", "nastran">>, <<".med", "med">>, <<".mesh", "medit">>,
       <<".msh", "gmsh4-binary">>, <<".nas", "nastran">>,
       <<".xml", "dolfin-xml">>, <<".post", "permas">>,
       <<".post.gz", "permas">>, <<".dato", "permas">>,
       <<".dato.gz", "permas">>, <<".h5m", "moab">>, <<".obj", "obj">>,
       <<".off", "off">>, <<".ply", "ply-binary">>, <<".stl", "stl-binary">>,
       <<".vtu", "vtu-binary">>, <<".vtk", "vtk-binary">>, <<".wkt", "wkt">>,
       <<".xdmf", "xdmf">>, <<".xmf", "xdmf">>, <<".inp", "abaqus">>,
       <<".mdpa", "mdpa">>, <<".svg", "svg">>, <<".node", "tetgen">>,
       <<".ele", "tetgen">> >>

ExtensionKeys == { extension_items[i][1] : i \in DOMAIN extension_items }

_extension_to_filetype ==
    [e \in ExtensionKeys |->
        extension_items[CHOOSE j \in DOMAIN extension_items :
                           extension_items[j][1] = e][2]]

----------------------------------------------------------------------------
(* Format inference *)

\* a loop that returns at its first match
RECURSIVE scan_first_match(_, _, _, _)
scan_first_match(todo, ext, out, n) ==
    IF todo = <<>> \/ out # None THEN [ext |-> ext, out |-> out, visited |-> n]
    ELSE scan_first_match(Tail(todo), Head(todo) \o ext,
                          IF Head(todo) \o ext \in DOMAIN _extension_to_filetype
                          THEN _extension_to_filetype[Head(todo) \o ext] ELSE out,
                          n + 1)

\* The loop of _filetype_from_path over the suffixes still to visit: ext and
\* out are the loop's variables, n counts the suffixes visited.
RECURSIVE scan(_, _, _, _)
\* the loop's body once ext has been extended to ext1
scan_step(todo, ext1, out, n) ==
    scan(Tail(todo), ext1,
         IF ext1 \in DOMAIN _extension_to_filetype
         THEN _extension_to_filetype[ext1] ELSE out,
         n + 1)

scan(todo, ext, out, n) ==
    IF todo = <<>> THEN [ext |-> ext, out |-> out, visited |-> n]
    ELSE scan_step(todo, Head(todo) \o ext, out, n)

\* the end of _filetype_from_path, after the loop
deduced_or_raise(r) ==
    IF r.out = None
    THEN [kind |-> "ReadError",
          msg |-> [text |-> "Could not deduce file format from extension '{}'.",
                   args |-> <<Str(r.ext)>>],
          visited |-> r.visited]
    ELSE [kind |-> "return", value |-> r.out, visited |-> r.visited]

\* _filetype_from_path: the identifier returned or the error raised, and how
\* many suffixes the loop visited
_filetype_from_path(path) ==
    deduced_or_raise(scan(reversed(suffixes(path)), "", None, 0))

----------------------------------------------------------------------------
(* The reader table *)

\* format_to_reader of read, as its (key, backend module) pairs in source order
format_to_reader_items ==
    << <<"ansys", "ansys">>, <<"ansys-ascii", "ansys">>,
       <<"ansys-binary", "ansys">>, <<"cgns", "cgns">>,
       <<"gmsh", "gmsh">>, <<"gmsh-ascii", "gmsh">>, <<"gmsh-binary", "gmsh">>,
       <<"gmsh2", "gmsh">>, <<"gmsh2-ascii", "gmsh">>,
       <<"gmsh2-binary", "gmsh">>, <<"gmsh4", "gmsh">>,
       <<"gmsh4-ascii", "gmsh">>, <<"gmsh4-binary", "gmsh">>,
       <<"flac3d", "flac3d">>, <<"wkt", "wkt">>, <<"med", "med">>,
       <<"medit", "medit">>, <<"nastran", "nastran">>,
       <<"neuroglancer", "neuroglancer">>, <<"dolfin-xml", "dolfin">>,
       <<"permas", "permas">>, <<"moab", "h5m">>, <<"obj", "obj">>,
       <<"off", "off">>,
       <<"ply", "ply">>, <<"ply-ascii", "ply">>, <<"ply-binary", "ply">>,
       <<"stl", "stl">>, <<"stl-ascii", "stl">>, <<"stl-binary", "stl">>,
       <<"tetgen", "tetgen">>,
       <<"vtu-ascii", "vtu">>, <<"vtu-binary", "vtu">>,
       <<"vtk-ascii", "vtk">>, <<"vtk-binary", "vtk">>,
       <<"xdmf", "xdmf">>, <<"exodus", "exodus">>, <<"abaqus", "abaqus">>,
       <<"mdpa", "mdpa">> >>

ReaderKeys == { format_to_reader_items[i][1] : i \in DOMAIN format_to_reader_items }

\* the table without its "permas" entry
format_to_reader_without_permas ==
    [k \in ReaderKeys \ {"permas"} |->
        format_to_reader_items[CHOOSE j \in DOMAIN format_to_reader_items :
                                  format_to_reader_items[j][1] = k][2]]

format_to_reader ==
    [k \in ReaderKeys |->
        format_to_reader_items[CHOOSE j \in DOMAIN format_to_reader_items :
                                  format_to_reader_items[j][1] = k][2]]

----------------------------------------------------------------------------
(* The writer table *)

NoKwargs == <<>>

\* An entry that is the backend's write itself: writer(f, m, **kwargs) is
\* backend.write(f, m, **kwargs).
Plain(backend) ==
    [backend |-> backend, pos |-> <<>>, fixed |-> NoKwargs, forwards |-> TRUE]

\* a lambda that leaves out the positional argument
lambda_without_pos(backend, pos, fixed) ==
    [backend |-> backend, pos |-> <<>>, fixed |-> fixed, forwards |-> TRUE]

\* lambda f, m, **kwargs: backend.write(f, m, *pos, **kwargs, **fixed)
Lambda(backend, pos, fixed) ==
    [backend |-> backend, pos |-> pos, fixed |-> fixed, forwards |-> TRUE]

\* lambda f, m, **kwargs: backend.write(f, m, **fixed): kwargs is not passed on
LambdaFixedOnly(backend, fixed) ==
    [backend |-> backend, pos |-> <<>>, fixed |-> fixed, forwards |-> FALSE]

\* _writer_map, as its (key, entry) pairs in source order
_writer_map_items ==
    << <<"moab", Plain("h5m")>>,
       <<"ansys-ascii", Lambda("ansys", <<>>, [binary |-> FALSE])>>,
       <<"ansys-binary", Lambda("ansys", <<>>, [binary |-> TRUE])>>,
       <<"wkt", Plain("wkt")>>,
       <<"gmsh2-ascii", Lambda("gmsh", <<"2">>, [binary |-> FALSE])>>,
       <<"gmsh2-binary", Lambda("gmsh", <<"2">>, [binary |-> TRUE])>>,
       <<"gmsh4-ascii", Lambda("gmsh", <<"4">>, [binary |-> FALSE])>>,
       <<"gmsh4-binary", Lambda("gmsh", <<"4">>, [binary |-> TRUE])>>,
       <<"med", Plain("med")>>,
       <<"medit", Plain("medit")>>,
       <<"dolfin-xml", Plain("dolfin")>>,
       <<"neuroglancer", Plain("neuroglancer")>>,
       <<"obj", Plain("obj")>>,
       <<"off", Plain("off")>>,
       <<"permas", Plain("permas")>>,
       <<"ply-ascii", Lambda("ply", <<>>, [binary |-> FALSE])>>,
       <<"ply-binary", Lambda("ply", <<>>, [binary |-> TRUE])>>,
       <<"stl-ascii", Lambda("stl", <<>>, [binary |-> FALSE])>>,
       <<"stl-binary", Lambda("stl", <<>>, [binary |-> TRUE])>>,
       <<"tetgen", Plain("tetgen")>>,
       <<"vtu-ascii", Lambda("vtu", <<>>, [binary |-> FALSE])>>,
       <<"vtu-binary", Lambda("vtu", <<>>, [binary |-> TRUE])>>,
       <<"vtu", Lambda("vtu", <<>>, [binary |-> TRUE])>>,
       <<"vtk-ascii", Lambda("vtk", <<>>, [binary |-> FALSE])>>,
       <<"vtk-binary", Lambda("vtk", <<>>, [binary |-> TRUE])>>,
       <<"vtk", Lambda("vtk", <<>>, [binary |-> TRUE])>>,
       <<"xdmf", Plain("xdmf")>>,
       <<"xdmf-binary", LambdaFixedOnly("xdmf", [data_format |-> "Binary"])>>,
       <<"xdmf-hdf", LambdaFixedOnly("xdmf", [data_format |-> "HDF"])>>,
       <<"xdmf-xml", LambdaFixedOnly("xdmf", [data_format |-> "XML"])>>,
       <<"xdmf3", Plain("xdmf")>>,
       <<"xdmf3-binary", LambdaFixedOnly("xdmf", [data_format |-> "Binary"])>>,
       <<"xdmf3-hdf", LambdaFixedOnly("xdmf", [data_format |-> "HDF"])>>,
       <<"xdmf3-xml", LambdaFixedOnly("xdmf", [data_format |-> "XML"])>>,
       <<"abaqus", Plain("abaqus")>>,
       <<"exodus", Plain("exodus")>>,
       <<"mdpa", Plain("mdpa")>>,
       <<"svg", Plain("svg")>>,
       <<"nastran", Plain("nastran")>>,
       <<"flac3d", Plain("flac3d")>>,
       <<"cgns", Plain("cgns")>> >>

WriterKeys == { _writer_map_items[i][1] : i \in DOMAIN _writer_map_items }

_writer_map ==
    [k \in WriterKeys |->
        _writer_map_items[CHOOSE j \in DOMAIN _writer_map_items :
                             _writer_map_items[j][1] = k][2]]

----------------------------------------------------------------------------
(* sorted() of strings *)

\* the characters of the identifiers, in code point order
CodePoints == "-0123456789_abcdefghijklmnopqrstuvwxyz"

ord(c) == CHOOSE i \in 1..Len(CodePoints) : Char(CodePoints, i) = c

\* a < b for Python strings: the first differing character decides, a proper
\* prefix is smaller
RECURSIVE str_less(_, _)
str_less(a, b) ==
    IF Len(b) = 0 THEN FALSE
    ELSE IF Len(a) = 0 THEN TRUE
    ELSE IF Char(a, 1) = Char(b, 1) THEN str_less(From(a, 1), From(b, 1))
    ELSE ord(Char(a, 1)) < ord(Char(b, 1))

RECURSIVE sorted(_)
\* sorted(S) once its least element m is known
sorted_from(S, m) == <<m>> \o sorted(S \ {m})

sorted(S) ==
    IF S = {} THEN <<>>
    ELSE sorted_from(S, CHOOSE x \in S : \A y \in S \ {x} : str_less(x, y))

\* sorted(list(_writer_map.keys()))
sorted_writer_keys == sorted(DOMAIN _writer_map)

----------------------------------------------------------------------------
(* Validation of the cells of a Mesh *)

\* num_nodes_per_cell of meshio._common: the cell-shape table
num_nodes_per_cell == [triangle |-> 3]

Digits == "0123456789"

is_digit(c) == \E i \in 1..Len(Digits) : Char(Digits, i) = c

digit_value(c) == (CHOOSE i \in 1..Len(Digits) : Char(Digits, i) = c) - 1

RECURSIVE strip(_)
strip(s) ==
    IF Len(s) > 0 /\ Char(s, 1) = " " THEN strip(From(s, 1))
    ELSE IF endswith(s, " ") THEN strip(SubSeq(s, 1, Len(s) - 1))
    ELSE s

\* the value of a string of digits and underscores, most significant first
RECURSIVE digits_value(_, _)
digits_value(s, acc) ==
    IF Len(s) = 0 THEN acc
    ELSE IF Char(s, 1) = "_" THEN digits_value(From(s, 1), acc)
    ELSE digits_value(From(s, 1), 10 * acc + digit_value(Char(s, 1)))

signed(t) == Len(t) > 0 /\ Char(t, 1) \in {"+", "-"}

\* digits with single underscores between them
wellformed(d) ==
    /\ Len(d) > 0
    /\ is_digit(Char(d, 1))
    /\ is_digit(Char(d, Len(d)))
    /\ \A i \in 1..Len(d) :
          \/ is_digit(Char(d, i))
          \/ Char(d, i) = "_" /\ Char(d, i + 1) # "_"

\* int(s) once s is stripped to t and t is cut to d after its sign
int_parsed(s, t, d) ==
    IF wellformed(d)
    THEN [kind |-> "return",
          value |-> IF signed(t) /\ Char(t, 1) = "-" THEN 0 - digits_value(d, 0)
                    ELSE digits_value(d, 0)]
    ELSE [kind |-> "ValueError",
          msg |-> [text |-> "invalid literal for int() with base 10: '{}'",
                   args |-> <<Str(s)>>]]

int_stripped(s, t) == int_parsed(s, t, IF signed(t) THEN From(t, 1) ELSE t)

\* Python's int(s) of a string, base 10: blanks around it, a sign, then
\* digits with single underscores between them; anything else is a ValueError
int(s) == int_stripped(s, strip(s))

Passed == [kind |-> "passed"]

\* "if value.shape[1] != int(key[7:]): raise WriteError()" once int(key[7:])
\* has returned n or raised
check_polygon(n, shape) ==
    IF n.kind # "return" THEN n
    ELSE IF shape[2] # n.value
    THEN [kind |-> "WriteError", msg |-> [text |-> "", args |-> <<>>]]
    ELSE Passed

\* one pass of the body of write's loop "check cells for sanity": a block is
\* <<key, shape>>, shape the block's array shape <<rows, width>>
check_block(key, shape) ==
    IF Upto(key, 7) = "polygon"
    THEN check_polygon(int(From(key, 7)), shape)
    ELSE IF key \in DOMAIN num_nodes_per_cell
    THEN IF shape[2] # num_nodes_per_cell[key]
         THEN [kind |-> "WriteError", msg |-> [text |-> "", args |-> <<>>]]
         ELSE Passed
    ELSE Passed

\* write's loop over mesh.cells.items(): the first error raised, or Passed
RECURSIVE check_cells(_)
\* the loop once its first block has been checked with result r
check_rest(r, cells) == IF r.kind # "passed" THEN r ELSE check_cells(Tail(cells))

check_cells(cells) ==
    IF cells = <<>> THEN Passed
    ELSE check_rest(check_block(Head(cells)[1], Head(cells)[2]), cells)

----------------------------------------------------------------------------
(* Files, buffers and backends *)

Path(name) == [kind |-> "path", name |-> name]
Buffer == [kind |-> "buffer", name |-> "<buffer>"]

\* is_buffer of meshio._files
is_buffer(obj, mode) == obj.kind = "buffer"

\* the Mesh value a reader returns
ReadMesh == [points |-> 3, cells |-> << <<"triangle", <<1, 3>> >> >>]

\* the file system after a writer backend has completed
stored(filename, backend, fs) ==
    IF filename.kind = "buffer" THEN fs
    ELSE [p \in DOMAIN fs \cup {filename.name} |->
            IF p = filename.name THEN backend ELSE fs[p]]

\* a reader backend parses what its own writer produced; what a buffer
\* holds is the environment's choice
can_parse(filename, backend, fs, ok) ==
    IF filename.kind = "buffer" THEN ok
    ELSE filename.name \in DOMAIN fs /\ fs[filename.name] = backend

Invocation(backend, fn, args, kwargs) ==
    [backend |-> backend, fn |-> fn, args |-> args, kwargs |-> kwargs]

Raise(kind, text, args, st) ==
    [outcome |-> [kind |-> kind, msg |-> [text |-> text, args |-> args]],
     steps |-> st, invoked |-> <<>>]

----------------------------------------------------------------------------
(* read *)

falsy(file_format) == file_format = None \/ file_format = ""

Failed(kind, msg, st) ==
    [outcome |-> [kind |-> kind, msg |-> msg], steps |-> st, invoked |-> <<>>]

\* "return format_to_reader[file_format].read(filename)", backend the module
\* looked up
read_backend(filename, backend, st, fs, ok) ==
    [outcome |->
        IF can_parse(filename, backend, fs, ok)
        THEN [kind |-> "return", value |-> ReadMesh]
        ELSE [kind |-> "ReadError",
              msg |-> [text |-> "<backend>", args |-> <<Str(backend)>>]],
     steps |-> st \o <<"lookup", "backend">>,
     invoked |-> <<Invocation(backend, "read", <<filename>>, NoKwargs)>>]

\* read from "if file_format not in format_to_reader" on: the lookup and the
\* reader's call
read_lookup(filename, file_format, msg, st, fs, ok) ==
    IF file_format \notin DOMAIN format_to_reader
    THEN Failed("ReadError", msg, st \o <<"lookup">>)
    ELSE read_backend(filename, format_to_reader[file_format], st, fs, ok)

\* read's path branch after the existence check: deduced is the explicit
\* file_format or what _filetype_from_path returned or raised
read_path(filename, deduced, st) ==
    IF deduced.kind # "return"
    THEN Failed(deduced.kind, deduced.msg, st)
    ELSE [file_format |-> deduced.value,
          msg |-> [text |-> "Unknown file format '{}' of '{}'.",
                   args |-> <<Str(deduced.value), Str(filename.name)>>],
          steps |-> st]

\* a read that resolves the format before it looks for the file
read_resolve_before_exists(filename, file_format, fs) ==
    IF is_buffer(filename, "r")
    THEN [file_format |-> file_format,
          msg |-> [text |-> "Unknown file format '{}'",
                   args |-> <<Str(file_format)>>],
          steps |-> <<"is_buffer">>]
    ELSE IF falsy(file_format)
    THEN read_path(filename, _filetype_from_path(filename.name),
                   <<"is_buffer", "_filetype_from_path">>)
    ELSE IF filename.name \notin DOMAIN fs
    THEN Raise("ReadError", "File {} not found.", <<Str(filename.name)>>,
               <<"is_buffer", "exists">>)
    ELSE read_path(filename, [kind |-> "return", value |-> file_format],
                   <<"is_buffer", "exists">>)

\* read up to "if file_format not in format_to_reader": an error raised, or
\* the file_format and msg the lookup is made with
read_resolve(filename, file_format, fs) ==
    IF is_buffer(filename, "r")
    THEN IF file_format = None
         THEN Raise("ReadError", "File format must be given if buffer is used",
                    <<>>, <<"is_buffer">>)
         ELSE IF file_format = "tetgen"
         THEN Raise("ReadError",
                    "tetgen format is spread across multiple files, and so cannot be read from a buffer",
                    <<>>, <<"is_buffer">>)
         ELSE [file_format |-> file_format,
               msg |-> [text |-> "Unknown file format '{}'",
                        args |-> <<Str(file_format)>>],
               steps |-> <<"is_buffer">>]
    ELSE IF filename.name \notin DOMAIN fs
    THEN Raise("ReadError", "File {} not found.", <<Str(filename.name)>>,
               <<"is_buffer", "exists">>)
    ELSE IF falsy(file_format)
    THEN read_path(filename, _filetype_from_path(filename.name),
                   <<"is_buffer", "exists", "_filetype_from_path">>)
    ELSE read_path(filename, [kind |-> "return", value |-> file_format],
                   <<"is_buffer", "exists">>)

\* read after its format resolution r
read_resolved(filename, r, fs, ok) ==
    IF "outcome" \in DOMAIN r THEN r
    ELSE read_lookup(filename, r.file_format, r.msg, r.steps, fs, ok)

\* read(filename, file_format) on the file system fs: how it ends, the stages
\* it went through and the reader it invoked
read_result(filename, file_format, fs, ok) ==
    read_resolved(filename, read_resolve(filename, file_format, fs), fs, ok)

\* the state after a call c that ended as r
ended(c, r, fs) ==
    /\ call' = c
    /\ outcome' = r.outcome
    /\ steps' = r.steps
    /\ invoked' = r.invoked
    /\ files' = fs

read(filename, file_format) ==
    \E ok \in BOOLEAN :
        ended([fn |-> "read", filename |-> filename, file_format |-> file_format],
              read_result(filename, file_format, files, ok), files)

----------------------------------------------------------------------------
(* write *)

merged(kwargs, fixed) ==
    [k \in DOMAIN kwargs \cup DOMAIN fixed |->
        IF k \in DOMAIN fixed THEN fixed[k] ELSE kwargs[k]]

\* writer(filename, mesh, **kwargs) for an entry of _writer_map: the call it
\* makes on its backend; a keyword given twice is a TypeError of the call
writer_call(entry, filename, mesh, kwargs) ==
    IF ~entry.forwards
    THEN [kind |-> "call",
          invocation |-> Invocation(entry.backend, "write",
                                    <<filename, mesh>> \o entry.pos, entry.fixed)]
    ELSE IF DOMAIN kwargs \cap DOMAIN entry.fixed # {}
    THEN [kind |-> "TypeError",
          msg |-> [text |-> "got multiple values for keyword argument '{}'",
                   args |-> <<Str(CHOOSE k \in DOMAIN kwargs \cap DOMAIN entry.fixed : TRUE)>>]]
    ELSE [kind |-> "call",
          invocation |-> Invocation(entry.backend, "write",
                                    <<filename, mesh>> \o entry.pos,
                                    merged(kwargs, entry.fixed))]

\* "return writer(filename, mesh, **kwargs)", c the writer's call
write_backend(filename, c, st, fs, ok) ==
    IF c.kind # "call"
    THEN [outcome |-> c, steps |-> st \o <<"writer">>, invoked |-> <<>>,
          files |-> fs]
    ELSE [outcome |->
             IF ok THEN [kind |-> "return", value |-> None]
             ELSE [kind |-> "WriteError",
                   msg |-> [text |-> "<backend>",
                            args |-> <<Str(c.invocation.backend)>>]],
          steps |-> st \o <<"writer", "backend">>,
          invoked |-> <<c.invocation>>,
          files |-> IF ok THEN stored(filename, c.invocation.backend, fs) ELSE fs]

\* write from "check cells for sanity" on, checked the loop's result
write_checked(filename, mesh, file_format, kwargs, checked, st, fs, ok) ==
    IF checked.kind # "passed"
    THEN [outcome |-> checked, steps |-> st, invoked |-> <<>>, files |-> fs]
    ELSE write_backend(filename,
                       writer_call(_writer_map[file_format], filename, mesh, kwargs),
                       st, fs, ok)

\* write from "try: writer = _writer_map[file_format]" on
write_lookup(filename, mesh, file_format, kwargs, st, fs, ok) ==
    IF file_format \notin DOMAIN _writer_map
    THEN [outcome |-> [kind |-> "KeyError",
                       msg |-> [text |-> "Unknown format '{}'. Pick one of {}",
                                args |-> <<Str(file_format), List(sorted_writer_keys)>>]],
          steps |-> st \o <<"lookup">>, invoked |-> <<>>, files |-> fs]
    ELSE write_checked(filename, mesh, file_format, kwargs,
                       check_cells(mesh.cells),
                       st \o <<"lookup", "check_cells">>, fs, ok)

\* write's path branch after _filetype_from_path returned or raised
write_path(deduced, st) ==
    IF deduced.kind # "return"
    THEN Failed(deduced.kind, deduced.msg, st)
    ELSE [file_format |-> deduced.value, steps |-> st]

\* a write without the buffer checks
write_resolve_unchecked(filename, file_format) ==
    IF ~is_buffer(filename, "r") /\ falsy(file_format)
    THEN write_path(_filetype_from_path(filename.name),
                    <<"is_buffer", "_filetype_from_path">>)
    ELSE [file_format |-> file_format, steps |-> <<"is_buffer">>]

\* write up to "try: writer = _writer_map[file_format]": an error raised, or
\* the file_format the lookup is made with
write_resolve(filename, file_format) ==
    IF is_buffer(filename, "r")
    THEN IF file_format = None
         THEN Raise("WriteError",  \* the source quotes filename in backticks
                    "File format must be supplied if filename is a buffer",
                    <<>>, <<"is_buffer">>)
         ELSE IF file_format = "tetgen"
         THEN Raise("WriteError",
                    "tetgen format is spread across multiple files, and so cannot be written to a buffer",
                    <<>>, <<"is_buffer">>)
         ELSE [file_format |-> file_format, steps |-> <<"is_buffer">>]
    ELSE IF falsy(file_format)
    THEN write_path(_filetype_from_path(filename.name),
                    <<"is_buffer", "_filetype_from_path">>)
    ELSE [file_format |-> file_format, steps |-> <<"is_buffer">>]

\* write after its format resolution r
write_resolved(filename, mesh, kwargs, r, fs, ok) ==
    IF "outcome" \in DOMAIN r THEN r @@ [files |-> fs]
    ELSE write_lookup(filename, mesh, r.file_format, kwargs, r.steps, fs, ok)

\* write(filename, mesh, file_format, **kwargs) on the file system fs
write_result(filename, mesh, file_format, kwargs, fs, ok) ==
    write_resolved(filename, mesh, kwargs, write_resolve(filename, file_format),
                   fs, ok)

\* the state after a writing call c that ended as r
written(c, r) == ended(c, r, r.files)

write(filename, mesh, file_format, kwargs) ==
    \E ok \in BOOLEAN :
        written([fn |-> "write", filename |-> filename, mesh |-> mesh,
                 file_format |-> file_format, kwargs |-> kwargs],
                write_result(filename, mesh, file_format, kwargs, files, ok))

\* Mesh(points, cells, ...) of meshio._mesh, on arrays given by their shapes
Mesh(points, cells) == [points |-> points, cells |-> cells]

write_points_cells(filename, points, cells, file_format, kwargs) ==
    \E ok \in BOOLEAN :
        written([fn |-> "write_points_cells", filename |-> filename,
                 mesh |-> Mesh(points, cells), file_format |-> file_format,
                 kwargs |-> kwargs],
                write_result(filename, Mesh(points, cells), file_format, kwargs,
                             files, ok))

----------------------------------------------------------------------------
(* The dispatcher: any sequence of calls on a small file system *)

NoCall == [fn |-> "none"]
NoOutcome == [kind |-> "none"]

GoodMesh == Mesh(3, << <<"triangle", <<1, 3>> >> >>)
BadMesh == Mesh(3, << <<"triangle", <<1, 4>> >> >>)

Filenames ==
    {Buffer, Path("mesh.vtk"), Path("mesh.svg"), Path("mesh.unknownext")}

\* None, the empty string, a multi-file format, a format of both tables and
\* a format of neither
Formats == {None, "", "tetgen", "vtk-ascii", "bogus"}

Init ==
    /\ files = <<>>
    /\ call = NoCall
    /\ outcome = NoOutcome
    /\ steps = <<>>
    /\ invoked = <<>>

Next ==
    \/ \E filename \in Filenames, file_format \in Formats :
          read(filename, file_format)
    \/ \E filename \in Filenames, file_format \in Formats,
          mesh \in {GoodMesh, BadMesh} :
          write(filename, mesh, file_format, NoKwargs)
    \/ \E filename \in Filenames, file_format \in Formats :
          write_points_cells(filename, GoodMesh.points, GoodMesh.cells,
                             file_format, NoKwargs)

Spec == Init /\ [][Next]_vars

----------------------------------------------------------------------------
(* Format inference on its own: one path, one call *)

\* the most suffixes appended to a stem
MaxSuffixes == 2

Stems == {"mesh", ".mesh", "mesh.", ""}

Suffixes == ExtensionKeys \cup {".gz", ".unknownext"}

Chains == UNION { [1..n -> Suffixes] : n \in 0..MaxSuffixes }

InferPaths == { stem \o concat(c) : stem \in Stems, c \in Chains }

InitInfer ==
    /\ files = <<>>
    /\ call \in { [fn |-> "_filetype_from_path", path |-> p] : p \in InferPaths }
    /\ outcome = NoOutcome
    /\ steps = <<>>
    /\ invoked = <<>>

infer ==
    /\ call.fn = "_filetype_from_path"
    /\ outcome = NoOutcome
    /\ outcome' = _filetype_from_path(call.path)
    /\ steps' = <<"_filetype_from_path">>
    /\ UNCHANGED <<files, call, invoked>>

SpecInfer == InitInfer /\ [][infer]_vars

----------------------------------------------------------------------------
(* write on its own: one call, over the writer table's identifiers with     *)
(* keyword options, and over meshes                                         *)

\* the most cell blocks of a mesh
MaxBlocks == 2

CellKeys == {"triangle", "polygon5", "polygon", "polygon_custom", "custom_xyz"}

Widths == {3, 4, 5, 6}

Blocks == { <<key, <<1, w>> >> : key \in CellKeys, w \in Widths }

\* cells is a dict: no key twice
CellLists ==
    { c \in UNION { [1..n -> Blocks] : n \in 0..MaxBlocks } :
        \A i, j \in DOMAIN c : i # j => c[i][1] # c[j][1] }

Meshes == { Mesh(3, c) : c \in CellLists }

KwargValues == [binary |-> TRUE, compression |-> "gzip", data_format |-> "XML"]

KwargsSets == { [k \in names |-> KwargValues[k]] : names \in SUBSET DOMAIN KwargValues }

WriteCalls ==
    { [fn |-> "write", filename |-> f, mesh |-> GoodMesh, file_format |-> ff,
       kwargs |-> kw] :
        f \in {Buffer, Path("mesh.out")}, ff \in WriterKeys, kw \in KwargsSets }
    \cup
    { [fn |-> "write", filename |-> f, mesh |-> m, file_format |-> "vtk-ascii",
       kwargs |-> NoKwargs] :
        f \in {Buffer, Path("mesh.out")}, m \in Meshes }

InitWrite ==
    /\ files = <<>>
    /\ call \in WriteCalls
    /\ outcome = NoOutcome
    /\ steps = <<>>
    /\ invoked = <<>>

write_once ==
    /\ call.fn = "write"
    /\ outcome = NoOutcome
    /\ write(call.filename, call.mesh, call.file_format, call.kwargs)

SpecWrite == InitWrite /\ [][write_once]_vars

----------------------------------------------------------------------------
(* A round trip: one path, written and read back without an identifier      *)

RoundTripPaths == { "mesh" \o e : e \in ExtensionKeys \cup {".unknownext"} }

InitRoundTrip ==
    /\ files = <<>>
    /\ call \in { [fn |-> "none", filename |-> Path(p)] : p \in RoundTripPaths }
    /\ outcome = NoOutcome
    /\ steps = <<>>
    /\ invoked = <<>>

NextRoundTrip ==
    \/ \E file_format \in {None, "vtk-ascii"} :
          write(call.filename, GoodMesh, file_format, NoKwargs)
    \/ read(call.filename, None)

SpecRoundTrip == InitRoundTrip /\ [][NextRoundTrip]_vars

----------------------------------------------------------------------------
(* Properties *)

Range(f) == { f[i] : i \in DOMAIN f }

Dispatchers == {"read", "write", "write_points_cells"}

IsError == outcome.kind \notin {"none", "return"}

\* the last call failed in the dispatcher's own code, before any backend
OwnFailure == IsError /\ invoked = <<>>

\* the accumulated suffix the loop holds after visiting the suffixes from
\* the i-th to the last
Accumulated(sfx, i) == concat(SubSeq(sfx, i, Len(sfx)))

Registered(sfx) == { i \in DOMAIN sfx : Accumulated(sfx, i) \in ExtensionKeys }

LongestRegistered(sfx) ==
    Accumulated(sfx, CHOOSE i \in Registered(sfx) : \A j \in Registered(sfx) : i <= j)

EndsWith(s, e) ==
    Len(s) >= Len(e) /\ SubSeq(s, Len(s) - Len(e) + 1, Len(s)) = e

\* a stem that names a file: not empty, not dots only
IsStem(s) == \E i \in 1..Len(s) : Char(s, i) # "."

Inferred == call.fn = "_filetype_from_path" /\ outcome # NoOutcome

\* C1: _filetype_from_path visits every suffix of the path and returns the
\* identifier of the longest registered accumulated suffix; it raises exactly
\* when no accumulated suffix is registered, and the message then carries
\* the whole suffix chain; hence a path <stem> + e with e a key of the
\* extension table gives the table's value for e.
C1_LongestRegisteredSuffixWins ==
    Inferred =>
        /\ outcome.visited = Len(suffixes(call.path))
        /\ IF Registered(suffixes(call.path)) = {}
           THEN /\ outcome.kind = "ReadError"
                /\ outcome.msg.args = <<Str(concat(suffixes(call.path)))>>
           ELSE /\ outcome.kind = "return"
                /\ outcome.value =
                      _extension_to_filetype[LongestRegistered(suffixes(call.path))]
        /\ \A e \in ExtensionKeys :
              (/\ EndsWith(call.path, e)
               /\ IsStem(SubSeq(call.path, 1, Len(call.path) - Len(e))))
              => /\ outcome.kind = "return"
                 /\ outcome.value = _extension_to_filetype[e]

C1_Witness ==
    /\ Inferred
    /\ call.path = "mesh.dato.gz"
    /\ outcome.kind = "return"
    /\ outcome.value = "permas"
    /\ outcome.visited = 2

\* C2: read and write on a buffer fail with the usage error when no
\* identifier is given and with the "cannot be ... a buffer" error for
\* "tetgen", right after the buffer test: no lookup, no validation, no
\* backend.
C2_BufferNeedsSingleFileFormat ==
    (/\ call.fn \in Dispatchers
     /\ call.filename.kind = "buffer"
     /\ call.file_format \in {None, "tetgen"})
    => /\ outcome.kind = IF call.fn = "read" THEN "ReadError" ELSE "WriteError"
       /\ outcome.msg.text =
             IF call.fn = "read"
             THEN IF call.file_format = None
                  THEN "File format must be given if buffer is used"
                  ELSE "tetgen format is spread across multiple files, and so cannot be read from a buffer"
             ELSE IF call.file_format = None
                  THEN "File format must be supplied if filename is a buffer"
                  ELSE "tetgen format is spread across multiple files, and so cannot be written to a buffer"
       /\ steps = <<"is_buffer">>
       /\ invoked = <<>>

C2_Witness ==
    /\ call.fn = "write"
    /\ call.filename.kind = "buffer"
    /\ call.file_format = "tetgen"
    /\ outcome.kind = "WriteError"
    /\ invoked = <<>>

\* C3: read of a path that does not exist raises the "not found" ReadError
\* right after the existence test, whatever the identifier and the
\* extension: no inference, no lookup, no reader.
C3_MissingFileFirst ==
    (/\ call.fn = "read"
     /\ call.filename.kind = "path"
     /\ call.filename.name \notin DOMAIN files)
    => /\ outcome.kind = "ReadError"
       /\ outcome.msg = [text |-> "File {} not found.",
                         args |-> <<Str(call.filename.name)>>]
       /\ steps = <<"is_buffer", "exists">>
       /\ invoked = <<>>

C3_Witness ==
    /\ call.fn = "read"
    /\ call.filename = Path("mesh.unknownext")
    /\ call.file_format = None
    /\ "mesh.unknownext" \notin DOMAIN files
    /\ "mesh.vtk" \in DOMAIN files
    /\ outcome.kind = "ReadError"

----------------------------------------------------------------------------
(* Properties of write's validation and of the writer table *)

\* the key is "polygon" followed by a decimal integer
IsPolygonN(key) ==
    /\ Len(key) > 7
    /\ SubSeq(key, 1, 7) = "polygon"
    /\ \A i \in 8..Len(key) : is_digit(Char(key, i))

RECURSIVE Decimal(_)
Decimal(d) ==
    IF d = "" THEN 0
    ELSE 10 * Decimal(SubSeq(d, 1, Len(d) - 1)) + digit_value(Char(d, Len(d)))

InShapeTable(key) == key \in DOMAIN num_nodes_per_cell

\* the block is of one of the two checked families and has the wrong width
WrongWidth(block) ==
    \/ IsPolygonN(block[1]) /\ block[2][2] # Decimal(SubSeq(block[1], 8, Len(block[1])))
    \/ InShapeTable(block[1]) /\ block[2][2] # num_nodes_per_cell[block[1]]

\* a write without keyword options that got as far as the validation
Validated ==
    /\ call.fn = "write"
    /\ call.kwargs = NoKwargs
    /\ "check_cells" \in Range(steps)

\* C4: write invokes the writer only after every cell block is accepted: a
\* polygonN block of width other than N or a block of the cell-shape table
\* of another width than the table's makes write raise WriteError without
\* invoking the backend; otherwise the backend is invoked exactly once.
C4_ValidationGuardsBackend ==
    Validated =>
        IF \E i \in DOMAIN call.mesh.cells : WrongWidth(call.mesh.cells[i])
        THEN outcome.kind = "WriteError" /\ invoked = <<>>
        ELSE Len(invoked) = 1

\* C5: a block whose key is neither "polygon" followed by a decimal integer
\* nor a key of the cell-shape table is skipped, whatever its width: a mesh
\* of such blocks only never makes write fail before the backend.
C5_OtherKeysSkipped ==
    (/\ Validated
     /\ \A i \in DOMAIN call.mesh.cells :
           /\ ~IsPolygonN(call.mesh.cells[i][1])
           /\ ~InShapeTable(call.mesh.cells[i][1]))
    => Len(invoked) = 1

\* what each alias named in the claim stands for: the backend, the
\* positional arguments after the mesh, the fixed keyword and its value
AliasMeaning ==
    [k \in {"gmsh2-ascii", "gmsh2-binary", "gmsh4-ascii", "gmsh4-binary",
            "ansys-ascii", "ansys-binary", "ply-ascii", "ply-binary",
            "stl-ascii", "stl-binary", "vtu-ascii", "vtu-binary",
            "vtk-ascii", "vtk-binary",
            "xdmf-binary", "xdmf-hdf", "xdmf-xml"} |->
        CASE k = "gmsh2-ascii" -> <<"gmsh", <<"2">>, [binary |-> FALSE]>>
          [] k = "gmsh2-binary" -> <<"gmsh", <<"2">>, [binary |-> TRUE]>>
          [] k = "gmsh4-ascii" -> <<"gmsh", <<"4">>, [binary |-> FALSE]>>
          [] k = "gmsh4-binary" -> <<"gmsh", <<"4">>, [binary |-> TRUE]>>
          [] k = "xdmf-binary" -> <<"xdmf", <<>>, [data_format |-> "Binary"]>>
          [] k = "xdmf-hdf" -> <<"xdmf", <<>>, [data_format |-> "HDF"]>>
          [] k = "xdmf-xml" -> <<"xdmf", <<>>, [data_format |-> "XML"]>>
          [] OTHER -> <<SubSeq(k, 1, 3) \o (IF SubSeq(k, 1, 3) = "ans" THEN "ys" ELSE ""),
                        <<>>,
                        [binary |-> EndsWith(k, "-binary")]>>]

\* a write that invoked its backend
Dispatched == call.fn = "write" /\ Len(invoked) = 1

\* the backend got the fixed parameters the alias stands for
AliasDispatch ==
    (Dispatched /\ call.file_format \in DOMAIN AliasMeaning)
    => /\ invoked[1].backend = AliasMeaning[call.file_format][1]
       /\ invoked[1].fn = "write"
       /\ invoked[1].args = <<call.filename, call.mesh>> \o AliasMeaning[call.file_format][2]
       /\ \A p \in DOMAIN AliasMeaning[call.file_format][3] :
             /\ p \in DOMAIN invoked[1].kwargs
             /\ invoked[1].kwargs[p] = AliasMeaning[call.file_format][3][p]

\* an identifier without a -ascii, -binary, -hdf or -xml qualifier
Unqualified(k) == \A i \in 1..Len(k) : Char(k, i) # "-"

\* the identifiers of the writer table that make the same call on the same
\* backend as the last write did, in the place of its identifier
SameCall ==
    { k \in DOMAIN _writer_map :
        writer_call(_writer_map[k], call.filename, call.mesh, call.kwargs)
            = [kind |-> "call", invocation |-> invoked[1]] }

\* identifiers that differ in "xdmf" against "xdmf3" only
XdmfSynonyms(k1, k2) ==
    \E q \in {"-binary", "-hdf", "-xml"} : {k1, k2} = {"xdmf" \o q, "xdmf3" \o q}

C7_KwargsForwarded ==
    Dispatched =>
        \A p \in DOMAIN call.kwargs :
            /\ p \in DOMAIN invoked[1].kwargs
            /\ invoked[1].kwargs[p] = call.kwargs[p]

----------------------------------------------------------------------------
(* Properties of the errors *)

\* C8: what write raises itself is a WriteError and what read raises itself
\* is a ReadError.
C8_ErrorKindByDirection ==
    (call.fn \in Dispatchers /\ OwnFailure)
    => outcome.kind = IF call.fn = "read" THEN "ReadError" ELSE "WriteError"

\* the last call failed at the lookup of its identifier
UnknownFormat ==
    /\ call.fn \in Dispatchers
    /\ IsError
    /\ steps[Len(steps)] = "lookup"

\* the identifier the last call looked up
LookedUp ==
    IF falsy(call.file_format) /\ call.filename.kind = "path"
    THEN _filetype_from_path(call.filename.name).value
    ELSE call.file_format

\* l lists the members of S in ascending order
IsSortedListOf(l, S) ==
    /\ Range(l) = S
    /\ \A i, j \in DOMAIN l : i < j => str_less(l[i], l[j])

\* C9: a failed lookup invokes no backend, and its message names the
\* identifier and lists all identifiers of the direction's table in sorted
\* order; read's message names the source too.
C9_UnknownFormatListsChoices ==
    UnknownFormat =>
        /\ invoked = <<>>
        /\ Str(LookedUp) \in Range(outcome.msg.args)
        /\ \E a \in Range(outcome.msg.args) :
              /\ "list" \in DOMAIN a
              /\ IsSortedListOf(a.list,
                                IF call.fn = "read" THEN ReaderKeys ELSE WriterKeys)
        /\ call.fn = "read" => Str(call.filename.name) \in Range(outcome.msg.args)

----------------------------------------------------------------------------
(* Properties of the round trip *)

\* the last call was made without an identifier on a path mesh<e>, e a key
\* of the extension table
OnExtension(fn, e) ==
    /\ call.fn = fn
    /\ call.file_format = None
    /\ call.filename = Path("mesh" \o e)

\* such a read, of a file that exists
ReadBack(e) == OnExtension("read", e) /\ call.filename.name \in DOMAIN files

\* the file read holds what the writer inferred from its extension produces
WrittenAsInferred(e) ==
    /\ _extension_to_filetype[e] \in DOMAIN _writer_map
    /\ files[call.filename.name] = _writer_map[_extension_to_filetype[e]].backend

\* a call that infers its identifier from a registered extension (for read,
\* one not in Except) does not fail at the lookup, so the identifier is a key
\* of the direction's table; and a read of what the inferred writer wrote
\* goes to the same backend's reader
InferenceClosed(Except) ==
    \A e \in ExtensionKeys :
          /\ OnExtension("write", e) => ~UnknownFormat
          /\ (ReadBack(e) /\ e \notin Except) => ~UnknownFormat
          /\ (ReadBack(e) /\ e \notin Except /\ WrittenAsInferred(e))
             => /\ outcome.kind = "return"
                /\ Len(invoked) = 1
                /\ invoked[1].backend = files[call.filename.name]

\* C10 as stated: inference only yields identifiers of both tables.
C10_InferenceClosed == InferenceClosed({})

\* C10, amended: inference only yields identifiers of the writer table, and
\* of the reader table except for ".svg".
C10_InferenceClosedButSvg == InferenceClosed({".svg"})

C10_Witness ==
    /\ ReadBack(".vtk")
    /\ WrittenAsInferred(".vtk")
    /\ outcome.kind = "return"
    /\ invoked[1].backend = "vtk"

====
